---- MODULE Spec2Model ----
(***************************************************************************)
(* State-machine model of InterCom/src/rnnoise_wrapper.py: the RNNoise     *)
(* class (one engine object that owns one native RNNState handle) together *)
(* with the three native entry points it calls through ctypes.             *)
(*                                                                         *)
(* Spec      : one thread, every method call is one atomic step.           *)
(* FairSpec  : Spec plus weak fairness of the finalizer (__del__).         *)
(* ConcSpec  : two threads on one Ready engine, destroy()/process_frame()  *)
(*             split at the points where another thread can run.           *)
(***************************************************************************)
EXTENDS Integers, Sequences, FiniteSets, TLC

VARIABLES
    lifecycle,      \* reachability of the RNNoise object
    state,          \* self.state
    live,           \* native heap: handles allocated and not yet released
    freed,          \* handles that have been passed to a successful release
    adapt,          \* adaptive state of the native model behind the handle
    mem,            \* sample buffers (caller inputs and returned outputs)
    outputs,        \* buffers returned by process_frame so far
    releaseCount,   \* number of rnnoise_destroy calls made
    destroyCalled,  \* destroy() has been called explicitly on the engine
    createFailed,   \* rnnoise_create returned NULL in __init__
    last,           \* the most recent operation and what it did
    crashed,        \* the process was killed by the native library
    pc,             \* ConcSpec: position of each thread
    targ,           \* ConcSpec: per-thread locals (handle argument, out buffer)
    serialized,     \* ConcSpec: callers wrap every call in one mutex
    destroyedBy     \* ConcSpec: threads that have called destroy()

vars == <<lifecycle, state, live, freed, adapt, mem, outputs, releaseCount,
          destroyCalled, createFailed, last, crashed, pc, targ, serialized,
          destroyedBy>>

-----------------------------------------------------------------------------
(* Program constants and values of self.state *)

FRAME_SIZE == 480

NULL == 0
NoneVal == -1
Unset == -2

(* Bounds *)
NumHandles == 2
MaxBufs == 3
NumSamples == 2
AdaptMod == 3
MaxRelease == 3

Handles == 1..NumHandles
Samples == 0..(NumSamples - 1)
Threads == {1, 2}

(* Exception names of the specification as raised by the code *)
InitializationError == "RuntimeError"
InvalidFrameError == "ValueError"
UseAfterDestroyError == "UseAfterDestroyError"

-----------------------------------------------------------------------------
(* Frames handed to process_frame: a numpy array viewed over a buffer *)

Shapes == { <<>>, <<0>>, <<1>>, <<479>>, <<480>>, <<481>>, <<960>>,
            <<480, 2>>, <<2, 240>> }
DTypes == {"float32", "float64"}
Layouts == {"contig", "strided", "reversed"}

NoFrame == [id |-> 0, dtype |-> "none", shape |-> <<>>, layout |-> "none"]

\* np.zeros(self.FRAME_SIZE, dtype=np.float32) held in buffer id
OutFrame(id) ==
    [id |-> id, dtype |-> "float32", shape |-> <<FRAME_SIZE>>,
     layout |-> "contig"]

FramesOver(ids) == [id : ids, dtype : DTypes, shape : Shapes, layout : Layouts]

\* a Frame of the data model: contiguous, one-dimensional, 480 float32 samples
IsFrame(f) ==
    /\ f.dtype = "float32"
    /\ f.shape = <<FRAME_SIZE>>
    /\ f.layout = "contig"

\* truth value of self.state: a ctypes pointer is true iff it is non-NULL
Truthy(v) == v \notin {NULL, NoneVal, Unset}

\* line 42: if not self.state
CreateFailed(h) == ~Truthy(h)

\* line 72: if self.state
HoldsHandle_Always(s) == TRUE

HoldsHandle_NotNone(s) == s # NoneVal

HoldsHandle(s) == Truthy(s)

\* ctypes conversion of a Python argument for a POINTER(RNNState) parameter
ToPtr(v) == IF v = NoneVal THEN NULL ELSE v

\* line 55: frame.dtype != np.float32 or len(frame) != self.FRAME_SIZE
\* (len() of a 0-dimensional array raises TypeError)
Validate_AndMutant(f) ==
    IF f.dtype # "float32"
    THEN IF Len(f.shape) = 0 THEN "TypeError"
         ELSE IF f.shape[1] # FRAME_SIZE THEN "ValueError" ELSE "ok"
    ELSE "ok"

Validate(f) ==
    IF f.dtype # "float32" THEN "ValueError"
    ELSE IF Len(f.shape) = 0 THEN "TypeError"
    ELSE IF f.shape[1] # FRAME_SIZE THEN "ValueError"
    ELSE "ok"

\* line 56: the raise leaves process_frame before the native call
CallsNative_Always(v) == TRUE

CallsNative(v) == v = "ok"

\* line 63: the buffer that holds out_array
OutBuffer_InPlace(f, m) == f.id

OutBuffer(f, m) == Cardinality(DOMAIN m) + 1

\* line 74: the value stored in self.state after the release
DestroyedState_Keep(s) == s

DestroyedState(s) == NoneVal

-----------------------------------------------------------------------------
(* The native library (rnnoise.dll), as the wrapper sees it *)

NativeOut(a, x) == (a + x) % NumSamples
NativeAdapt(a, x) == (a + x + 1) % AdaptMod

\* what rnnoise_process_frame reads through in_buf: the frame's samples when
\* the array is one contiguous block of them, other memory otherwise
SeenSamples(f) == IF IsFrame(f) THEN {mem[f.id]} ELSE Samples

\* reading 480 floats from the data pointer leaves the buffer
OutOfBounds(f) == f.layout = "reversed"

\* rnnoise_process_frame(p, out_buf, in_buf): what is left in the out buffer,
\* the model's adaptive state afterwards, and whether the process survived.
\* A handle that is not live, or a read past the buffer, is undefined
\* behaviour: the process dies, or goes on with arbitrary output.
ProcessOutcomes(f, p) ==
    LET defined == IF p \in live
                   THEN {[dead |-> FALSE, val |-> NativeOut(adapt, x),
                          adapt |-> NativeAdapt(adapt, x)] :
                             x \in SeenSamples(f)}
                   ELSE {[dead |-> FALSE, val |-> y, adapt |-> adapt] :
                             y \in Samples}
        killed == IF p \notin live \/ OutOfBounds(f)
                  THEN {[dead |-> TRUE, val |-> 0, adapt |-> adapt]}
                  ELSE {}
    IN defined \cup killed

\* rnnoise_destroy(p): releasing NULL or a handle that is not live is
\* undefined behaviour: the process dies, or goes on
DestroyOutcomes(p) == IF p \in live THEN {FALSE} ELSE {FALSE, TRUE}

MkLast(op, status, frame, out, fn, arg, ps) ==
    [op |-> op, status |-> status, frame |-> frame, out |-> out,
     inBefore |-> IF frame.id \in DOMAIN mem THEN mem[frame.id] ELSE 0,
     fn |-> fn, arg |-> arg, liveBefore |-> live, freedBefore |-> freed,
     outsBefore |-> outputs, preState |-> ps, preDestroyed |-> destroyCalled]

UnchangedConc == UNCHANGED <<pc, targ, serialized, destroyedBy>>

-----------------------------------------------------------------------------
(* Spec: single-threaded use *)

Init ==
    /\ lifecycle = "uninit"
    /\ state = Unset
    /\ live = {}
    /\ freed = {}
    /\ adapt = 0
    /\ mem \in [{1} -> Samples]
    /\ outputs = {}
    /\ releaseCount = 0
    /\ destroyCalled = FALSE
    /\ createFailed = FALSE
    /\ last = MkLast("none", "ok", NoFrame, NoFrame, "none", NULL, Unset)
    /\ crashed = FALSE
    /\ pc = [t \in Threads |-> "idle"]
    /\ targ = [t \in Threads |-> [h |-> NULL, out |-> 0]]
    /\ serialized = TRUE
    /\ destroyedBy = {}

\* RNNoise.__init__
Create ==
    /\ ~crashed
    /\ lifecycle = "uninit"
    /\ \E h \in (Handles \ live) \cup {NULL} :
         /\ state' = h
         /\ live' = IF h = NULL THEN live ELSE live \cup {h}
         /\ adapt' = 0
         /\ createFailed' = CreateFailed(h)
         /\ lifecycle' = IF CreateFailed(h) THEN "unreachable" ELSE "alive"
         /\ last' = MkLast("create",
                           IF CreateFailed(h) THEN "RuntimeError" ELSE "ok",
                           NoFrame, NoFrame, "create", NULL, state)
    /\ UNCHANGED <<freed, mem, outputs, releaseCount, destroyCalled, crashed>>
    /\ UnchangedConc

\* RNNoise.process_frame
Process(f) ==
    /\ ~crashed
    /\ lifecycle = "alive"
    /\ LET v == Validate(f) IN
       IF ~CallsNative(v)
       THEN /\ last' = MkLast("process", v, f, NoFrame, "none", NULL, state)
            /\ UNCHANGED <<adapt, mem, outputs, crashed>>
       ELSE LET out == OutBuffer(f, mem)
                p == ToPtr(state)
            IN
            /\ Cardinality(DOMAIN mem) < MaxBufs
            /\ \E r \in ProcessOutcomes(f, p) :
                 LET returned == ~r.dead /\ v = "ok" IN
                 /\ crashed' = r.dead
                 /\ mem' = [i \in DOMAIN mem \cup {out} |->
                               IF i = out THEN r.val ELSE mem[i]]
                 /\ adapt' = r.adapt
                 /\ outputs' = IF returned THEN outputs \cup {out} ELSE outputs
                 /\ last' = MkLast("process",
                                   IF r.dead THEN "crash" ELSE v, f,
                                   IF returned THEN OutFrame(out) ELSE NoFrame,
                                   "process", p, state)
    /\ UNCHANGED <<lifecycle, state, live, freed, releaseCount, destroyCalled,
                   createFailed>>
    /\ UnchangedConc

\* body of RNNoise.destroy, shared by the explicit call and by __del__
DoDestroy(op) ==
    IF HoldsHandle(state)
    THEN LET p == ToPtr(state) IN
         /\ releaseCount < MaxRelease
         /\ releaseCount' = releaseCount + 1
         /\ \E die \in DestroyOutcomes(p) :
              /\ crashed' = die
              /\ last' = MkLast(op, IF die THEN "crash" ELSE "ok", NoFrame,
                                NoFrame, "destroy", p, state)
         /\ live' = live \ {p}
         /\ freed' = IF p \in live THEN freed \cup {p} ELSE freed
         /\ state' = DestroyedState(state)
    ELSE /\ last' = MkLast(op, "ok", NoFrame, NoFrame, "none", NULL, state)
         /\ UNCHANGED <<state, live, freed, releaseCount, crashed>>

\* RNNoise.destroy called by the owner
Destroy ==
    /\ ~crashed
    /\ lifecycle = "alive"
    /\ DoDestroy("destroy")
    /\ destroyCalled' = TRUE
    /\ UNCHANGED <<lifecycle, adapt, mem, outputs, createFailed>>
    /\ UnchangedConc

\* the owner drops its last reference to the engine
Drop ==
    /\ ~crashed
    /\ lifecycle = "alive"
    /\ lifecycle' = "unreachable"
    /\ last' = MkLast("drop", "ok", NoFrame, NoFrame, "none", NULL, state)
    /\ UNCHANGED <<state, live, freed, adapt, mem, outputs, releaseCount,
                   destroyCalled, createFailed, crashed>>
    /\ UnchangedConc

\* RNNoise.__del__, run by the collector on the unreachable object
Finalize_NoDestroy ==
    /\ ~crashed
    /\ lifecycle = "unreachable"
    /\ lifecycle' = "finalized"
    /\ last' = MkLast("finalize", "ok", NoFrame, NoFrame, "none", NULL, state)
    /\ UNCHANGED <<state, live, freed, releaseCount, crashed>>
    /\ UNCHANGED <<adapt, mem, outputs, destroyCalled, createFailed>>
    /\ UnchangedConc

Finalize ==
    /\ ~crashed
    /\ lifecycle = "unreachable"
    /\ lifecycle' = "finalized"
    /\ DoDestroy("finalize")
    /\ UNCHANGED <<adapt, mem, outputs, destroyCalled, createFailed>>
    /\ UnchangedConc

Next ==
    \/ Create
    \/ \E f \in FramesOver(DOMAIN mem) : Process(f)
    \/ Destroy
    \/ Drop
    \/ Finalize

Spec == Init /\ [][Next]_vars

\* the collector runs __del__ on an object once it is unreachable
FairSpec == Spec /\ WF_vars(Finalize)

-----------------------------------------------------------------------------
(* ConcSpec: two threads share one Ready engine.  A thread switch can fall  *)
(* between the test of self.state (line 72), the native release (line 73,   *)
(* where ctypes drops the interpreter lock) and the store of None (line 74),*)
(* and between the load of self.state for the native call (line 67) and the *)
(* call itself.                                                             *)

\* the frame the threads process: a valid Frame over the caller's buffer 1
SharedFrame == OutFrame(1)

ConcInit ==
    /\ lifecycle = "alive"
    /\ \E h \in Handles : state = h /\ live = {h}
    /\ freed = {}
    /\ adapt = 0
    /\ mem \in [{1} -> Samples]
    /\ outputs = {}
    /\ releaseCount = 0
    /\ destroyCalled = FALSE
    /\ createFailed = FALSE
    /\ last = MkLast("create", "ok", NoFrame, NoFrame, "create", NULL, Unset)
    /\ crashed = FALSE
    /\ pc = [t \in Threads |-> "idle"]
    /\ targ = [t \in Threads |-> [h |-> NULL, out |-> 0]]
    /\ serialized \in BOOLEAN
    /\ destroyedBy = {}

\* a thread may enter a method; under external serialization (one mutex
\* around every call on the engine) only while no other call is in progress
CanStart(t) ==
    /\ ~crashed
    /\ pc[t] = "idle"
    /\ serialized => \A u \in Threads : pc[u] = "idle"

UnchangedSeq == UNCHANGED <<lifecycle, createFailed, serialized>>

\* destroy, line 72: if self.state
CDestroyCheck(t) ==
    /\ CanStart(t)
    /\ destroyedBy' = destroyedBy \cup {t}
    /\ destroyCalled' = TRUE
    /\ pc' = [pc EXCEPT ![t] = IF HoldsHandle(state) THEN "d_call" ELSE "idle"]
    /\ last' = MkLast("destroy", "ok", NoFrame, NoFrame, "none", NULL, state)
    /\ UNCHANGED <<state, live, freed, adapt, mem, outputs, releaseCount,
                   crashed, targ>>
    /\ UnchangedSeq

\* destroy, line 73: rnnoise.rnnoise_destroy(self.state)
CDestroyCall(t) ==
    /\ ~crashed
    /\ pc[t] = "d_call"
    /\ releaseCount < MaxRelease
    /\ LET p == ToPtr(state) IN
       /\ releaseCount' = releaseCount + 1
       /\ \E die \in DestroyOutcomes(p) :
            /\ crashed' = die
            /\ last' = MkLast("destroy", IF die THEN "crash" ELSE "ok",
                              NoFrame, NoFrame, "destroy", p, state)
       /\ live' = live \ {p}
       /\ freed' = IF p \in live THEN freed \cup {p} ELSE freed
    /\ pc' = [pc EXCEPT ![t] = "d_clear"]
    /\ UNCHANGED <<state, adapt, mem, outputs, destroyCalled, targ,
                   destroyedBy>>
    /\ UnchangedSeq

\* destroy, line 74: self.state = None
CDestroyClear(t) ==
    /\ ~crashed
    /\ pc[t] = "d_clear"
    /\ state' = DestroyedState(state)
    /\ pc' = [pc EXCEPT ![t] = "idle"]
    /\ last' = MkLast("destroy", "ok", NoFrame, NoFrame, "none", NULL, state)
    /\ UNCHANGED <<live, freed, adapt, mem, outputs, releaseCount,
                   destroyCalled, crashed, targ, destroyedBy>>
    /\ UnchangedSeq

\* process_frame, lines 55-67 up to the native call: validation, the output
\* array and the load of self.state as the call's first argument
CProcessBegin(t) ==
    /\ CanStart(t)
    /\ CallsNative(Validate(SharedFrame))
    /\ Cardinality(DOMAIN mem) < MaxBufs
    /\ LET out == OutBuffer(SharedFrame, mem) IN
       /\ mem' = [i \in DOMAIN mem \cup {out} |->
                     IF i = out THEN 0 ELSE mem[i]]
       /\ targ' = [targ EXCEPT ![t] = [h |-> ToPtr(state), out |-> out]]
    /\ pc' = [pc EXCEPT ![t] = "p_call"]
    /\ last' = MkLast("process", "ok", SharedFrame, NoFrame, "none", NULL,
                      state)
    /\ UNCHANGED <<state, live, freed, adapt, outputs, releaseCount,
                   destroyCalled, crashed, destroyedBy>>
    /\ UnchangedSeq

\* process_frame, lines 67-69: the native call and the return
CProcessCall(t) ==
    /\ ~crashed
    /\ pc[t] = "p_call"
    /\ \E r \in ProcessOutcomes(SharedFrame, targ[t].h) :
         /\ crashed' = r.dead
         /\ mem' = [mem EXCEPT ![targ[t].out] = r.val]
         /\ adapt' = r.adapt
         /\ outputs' = IF r.dead THEN outputs
                       ELSE outputs \cup {targ[t].out}
         /\ last' = MkLast("process", IF r.dead THEN "crash" ELSE "ok",
                           SharedFrame,
                           IF r.dead THEN NoFrame ELSE OutFrame(targ[t].out),
                           "process", targ[t].h, state)
    /\ pc' = [pc EXCEPT ![t] = "idle"]
    /\ targ' = [targ EXCEPT ![t] = [h |-> NULL, out |-> 0]]
    /\ UNCHANGED <<state, live, freed, releaseCount, destroyCalled,
                   destroyedBy>>
    /\ UnchangedSeq

ConcNext ==
    \E t \in Threads :
        \/ CDestroyCheck(t)
        \/ CDestroyCall(t)
        \/ CDestroyClear(t)
        \/ CProcessBegin(t)
        \/ CProcessCall(t)

ConcSpec == ConcInit /\ [][ConcNext]_vars

-----------------------------------------------------------------------------
(* Properties *)

Ready(s) == Truthy(s)
CreatedOk == lifecycle # "uninit" /\ ~createFailed
IsDestroyOp == last.op \in {"destroy", "finalize"}

\* C1: a process call made after destroy() fails with UseAfterDestroyError
\* and makes no native rnnoise_process_frame call.
C1_ProcessAfterDestroyFails ==
    (last.op = "process" /\ last.preDestroyed) =>
        (last.status = UseAfterDestroyError /\ last.fn # "process")

\* C2: over explicit destroy() calls and the finalizer the native release is
\* invoked at most once; no destroy fails; a destroy that runs after the
\* release makes no native call and leaves self.state as it found it.
C2_DestroyIdempotent ==
    /\ releaseCount <= 1
    /\ IsDestroyOp => last.status = "ok"
    /\ (IsDestroyOp /\ last.freedBefore # {}) =>
           (last.fn = "none" /\ state = last.preState /\ live = last.liveBefore)

C2_Witness ==
    /\ last.op = "destroy"
    /\ last.preDestroyed
    /\ last.freedBefore # {}
    /\ releaseCount = 1

\* C3: on a Ready engine a frame whose dtype is not float32, or whose length
\* is not 480, is rejected with InvalidFrameError and no native call is made.
C3_InvalidFrameRejected ==
    (/\ last.op = "process"
     /\ Ready(last.preState)
     /\ \/ last.frame.dtype # "float32"
        \/ Len(last.frame.shape) >= 1 /\ last.frame.shape[1] # FRAME_SIZE)
    => (last.status = InvalidFrameError /\ last.fn = "none")

C3_Witness ==
    /\ last.op = "process"
    /\ Ready(last.preState)
    /\ last.frame.dtype = "float32"
    /\ last.frame.shape = <<960>>
    /\ last.status = InvalidFrameError

\* C4: when rnnoise_create returns NULL, construction fails with
\* InitializationError, the object never becomes usable, and neither
\* rnnoise_process_frame nor rnnoise_destroy is ever called for it.
C4_FailedCreate ==
    createFailed =>
        /\ lifecycle \in {"unreachable", "finalized"}
        /\ last.op = "create" => last.status = InitializationError
        /\ last.op \in {"create", "finalize"}
        /\ last.fn \notin {"process", "destroy"}
        /\ releaseCount = 0

C4_Witness == createFailed /\ lifecycle = "finalized" /\ last.op = "finalize"

\* C5: an engine whose construction succeeded is released exactly once: never
\* twice, exactly once by the time its finalizer has run, and the finalizer
\* does run once the engine is unreachable.
C5_ReleasedExactlyOnce ==
    /\ [](releaseCount <= 1)
    /\ []((CreatedOk /\ lifecycle = "finalized") => releaseCount = 1)
    /\ (CreatedOk /\ lifecycle = "unreachable")
           ~> (lifecycle = "finalized" /\ releaseCount = 1 /\ live = {})

C5_Witness ==
    /\ CreatedOk
    /\ lifecycle = "finalized"
    /\ ~destroyCalled
    /\ last.fn = "destroy"
    /\ releaseCount = 1

\* C6: a valid frame processed on a Ready engine yields a 480-sample float32
\* frame in a buffer that is neither the input's nor that of any earlier
\* output, and the input's samples are what they were before the call.
C6_FreshOutput ==
    (last.op = "process" /\ Ready(last.preState) /\ IsFrame(last.frame)) =>
        /\ last.status = "ok"
        /\ IsFrame(last.out)
        /\ last.out.id # last.frame.id
        /\ last.out.id \notin last.outsBefore
        /\ last.out.id \in outputs
        /\ mem[last.frame.id] = last.inBefore

C6_Witness ==
    /\ last.op = "process"
    /\ Ready(last.preState)
    /\ IsFrame(last.frame)
    /\ last.frame.id \in last.outsBefore
    /\ last.status = "ok"

\* C7: a process call that fails validation changes nothing: lifecycle,
\* self.state, the native heap, the model's adaptive state and all buffers
\* are as before.
C7_RejectionChangesNothing ==
    [][(last'.op = "process" /\ last'.status \in {"ValueError", "TypeError"})
         => UNCHANGED <<lifecycle, state, live, freed, adapt, mem, outputs,
                        releaseCount>>]_vars

C7_Witness ==
    /\ last.op = "process"
    /\ last.status = InvalidFrameError
    /\ Ready(state)
    /\ adapt # 0
    /\ outputs # {}

\* C8: every buffer handed to rnnoise_process_frame is a contiguous
\* one-dimensional block of 480 float32 samples.
C8_OnlyFramesReachNative ==
    last.fn = "process" => IsFrame(last.frame)

\* C9: single-threaded, rnnoise_process_frame never receives a released
\* handle and rnnoise_destroy never receives NULL or a handle that is not
\* live.
C9_NoReleasedHandleUsed ==
    /\ last.fn = "process" => last.arg \notin last.freedBefore
    /\ last.fn = "destroy" =>
           (last.arg # NULL /\ last.arg \in last.liveBefore)
    /\ state \notin freed

C9_Witness ==
    /\ last.fn = "process"
    /\ last.freedBefore # {}
    /\ last.preDestroyed

\* C10 as stated: with two threads on one engine and no serialization the
\* native release is invoked at most once and no process call is given a
\* handle that has been released.
C10_Original ==
    /\ releaseCount <= 1
    /\ last.fn = "process" => last.arg \notin last.freedBefore

\* C10 amended: the same holds when the callers serialize their calls.
C10_Serialized ==
    serialized =>
        /\ releaseCount <= 1
        /\ last.fn = "process" => last.arg \notin last.freedBefore
        /\ last.fn = "destroy" => last.arg \in last.liveBefore

C10_Witness ==
    /\ serialized
    /\ destroyedBy = Threads
    /\ releaseCount = 1
    /\ last.fn = "process"
    /\ last.freedBefore # {}

====
